---- MODULE Spec2Model ----
(***************************************************************************)
(* UVBasedPoseReader.py: a builder that issues a fixed sequence of host    *)
(* (pymel / maya.cmds) calls to create and wire the nodes of a pose        *)
(* reader.  The model keeps the host scene (nodes, attribute values,       *)
(* connections), the Python object under construction and the position of  *)
(* the build in the call sequence of setup().                              *)
(*                                                                         *)
(* Numbers are fixed-point: the real value x is the integer x * One.       *)
(***************************************************************************)
EXTENDS Integers, Sequences, FiniteSets, TLC

VARIABLES
    nodes,      \* host scene: the nodes, in creation order (a node's id is its index)
    vals,       \* host scene: per node, attribute -> value, for every attribute that was set
    limits,     \* host scene: per node, attribute -> [min, max], for those made by addAttr
    conns,      \* host scene: per node, attribute -> the plug connected into it
    policy,     \* host: what a creation call does with a name in use, "rename" | "raise"
    faulted,    \* host: whether a host call has failed for a reason other than a name
    self,       \* the fields of the UVBasedPoseReader object of the latest constructor call
    frame,      \* the local variables of the method that is running
    pc,         \* index into prog of the next call
    phases,     \* the methods setup() has entered in the latest build, in order
    status,     \* "idle" | "running" | "done" | "raised"
    error,      \* the exception that reached the caller of the latest constructor call
    args,       \* the arguments of every constructor call so far
    objects,    \* the objects whose constructor returned (the callers' handles)
    prog        \* the calls setup() makes for the latest object, fixed when it starts

vars == <<nodes, vals, limits, conns, policy, faulted, self, frame, pc, phases,
          status, error, args, objects, prog>>

scene == <<nodes, vals, limits, conns>>

----------------------------------------------------------------------------
\* Bounds of the model.

\* Constructor calls in one behaviour, the module-level one included.
MaxBuilds == 2

\* Names the user passes to the constructor besides the default one.
UserNames == {"UVBasedPoseReader", "arm"}

\* cone_angle arguments, in degrees.
ConeAngles == {45, 180}

----------------------------------------------------------------------------
\* Program constants.

DefaultName == "UVBasedPoseReader"
DefaultConeAngle == 180
ConeAngleMin == 0
ConeAngleMax == 180

\* Fixed point: 1.0.  Twice the largest cone angle, so that 0.25, 0.5 and every
\* remap of a whole number of degrees are integers.
One == 2 * ConeAngleMax

None == 0
NoName == ""
NoVar == ""
NoError == ""
EmptyFn == [x \in {} |-> 0]

\* 'C_%s_GRP' % name
Fmt(pre, s, post) == pre \o s \o post

\* Attribute paths.
A(a) == <<a>>
CE(i, f) == <<"colorEntryList", i, f>>
CEC(i, ch) == <<"colorEntryList", i, "color", ch>>

----------------------------------------------------------------------------
\* The calls of the program, one record per host call, in source order.

Create(line, cmd, type, n, p, to) ==
    [op |-> "create", line |-> line, cmd |-> cmd, type |-> type, n |-> n, p |-> p, to |-> to]
AddAttr(line, node, attr, min, max, dv) ==
    [op |-> "addAttr", line |-> line, node |-> node, attr |-> attr, min |-> min, max |-> max, dv |-> dv]
SetAttr(line, node, attr, val) ==
    [op |-> "setAttr", line |-> line, node |-> node, attr |-> attr, val |-> val]
CmdsSetAttr(line, node, attr, val) ==
    [op |-> "cmdsSetAttr", line |-> line, node |-> node, attr |-> attr, val |-> val]
Connect(line, sn, sa, dn, da) ==
    [op |-> "connect", line |-> line, sn |-> sn, sa |-> sa, dn |-> dn, da |-> da]
Parent(line, child, p) ==
    [op |-> "parent", line |-> line, child |-> child, p |-> p]
DefaultNavigation(line, source, dest) ==
    [op |-> "defaultNavigation", line |-> line, source |-> source, dest |-> dest]
Call(line, method) ==
    [op |-> "call", line |-> line, method |-> method]

Grey(v) == <<v, v, v>>

\* A variant of info_attrs that passes no n= at line 59.
info_attrs_unnamed(s) ==
    << Create(59, "createNode", "transform", NoName, NoVar, "info_node"),
       AddAttr(60, "info_node", A("outValue"), -One, One, 0),
       AddAttr(61, "info_node", A("coneAngle"), ConeAngleMin * One, ConeAngleMax * One,
               s.cone_angle * One),
       AddAttr(63, "info_node", A("visualize"), 0, One, One) >>

\* lines 59-63: the info node and its three attributes
info_attrs(s) ==
    << Create(59, "createNode", "transform", Fmt("C_", s.name, "_GRP"), NoVar, "info_node"),
       AddAttr(60, "info_node", A("outValue"), -One, One, 0),
       AddAttr(61, "info_node", A("coneAngle"), ConeAngleMin * One, ConeAngleMax * One,
               s.cone_angle * One),
       AddAttr(63, "info_node", A("visualize"), 0, One, One) >>

\* lines 65-74: the sphere, the closest-point sampler and the multiplier
sampling(s) ==
    << Create(65, "sphere", "transform", Fmt("C_", s.name, "_NRB"), NoVar, "sphere"),
       Parent(66, "sphere", "info_node"),
       Create(67, "createNode", "closestPointOnSurface", NoName, NoVar, "point_on_surface"),
       Create(68, "createNode", "multDoubleLinear", NoName, NoVar, "mdl"),
       Create(69, "createNode", "ramp", NoName, NoVar, "ramp"),
       Connect(71, "sphere", A("ws"), "point_on_surface", A("inputSurface")),
       SetAttr(72, "mdl", A("input2"), One \div 4),
       Connect(73, "point_on_surface", A("parameterU"), "mdl", A("input1")),
       Connect(74, "mdl", A("output"), "ramp", A("uCoord")) >>

\* A variant of ramp_entries that sets the colour -2 at line 82.
ramp_entries_overdriven ==
    << SetAttr(75, "ramp", A("type"), 1),
       SetAttr(76, "ramp", CE(0, "color"), Grey(0)),
       SetAttr(77, "ramp", CE(1, "position"), One),
       SetAttr(78, "ramp", CE(1, "color"), Grey(One)),
       SetAttr(79, "ramp", CE(2, "position"), 0),
       CmdsSetAttr(82, "ramp", CE(2, "color"), Grey(-2 * One)),
       SetAttr(84, "ramp", CE(3, "color"), Grey(0)),
       Connect(85, "ramp", A("outColorR"), "info_node", A("outValue")) >>

\* lines 75-85: the four stops of the core ramp and the public output
ramp_entries ==
    << SetAttr(75, "ramp", A("type"), 1),
       SetAttr(76, "ramp", CE(0, "color"), Grey(0)),
       SetAttr(77, "ramp", CE(1, "position"), One),
       SetAttr(78, "ramp", CE(1, "color"), Grey(One)),
       SetAttr(79, "ramp", CE(2, "position"), 0),
       CmdsSetAttr(82, "ramp", CE(2, "color"), Grey(-One)),
       SetAttr(84, "ramp", CE(3, "color"), Grey(0)),
       Connect(85, "ramp", A("outColorR"), "info_node", A("outValue")) >>

\* A variant of cone_angle_remap that connects rmv instead of rvs at line 97.
cone_angle_remap_unreversed ==
    << Create(88, "createNode", "remapValue", "coneAngle", NoVar, "rmv"),
       SetAttr(89, "rmv", A("inputMin"), ConeAngleMin * One),
       SetAttr(90, "rmv", A("inputMax"), ConeAngleMax * One),
       SetAttr(91, "rmv", A("outputMin"), One),
       SetAttr(92, "rmv", A("outputMax"), One \div 2),
       Connect(93, "info_node", A("coneAngle"), "rmv", A("inputValue")),
       Connect(94, "rmv", A("outValue"), "ramp", CE(0, "position")),
       Create(95, "createNode", "reverse", "coneAngle", NoVar, "rvs"),
       Connect(96, "rmv", A("outValue"), "rvs", A("inputX")),
       Connect(97, "rmv", A("outValue"), "ramp", CE(3, "position")) >>

\* A variant of cone_angle_remap that sets stop 0 at line 94 instead of connecting it.
cone_angle_remap_undriven ==
    << Create(88, "createNode", "remapValue", "coneAngle", NoVar, "rmv"),
       SetAttr(89, "rmv", A("inputMin"), ConeAngleMin * One),
       SetAttr(90, "rmv", A("inputMax"), ConeAngleMax * One),
       SetAttr(91, "rmv", A("outputMin"), One),
       SetAttr(92, "rmv", A("outputMax"), One \div 2),
       Connect(93, "info_node", A("coneAngle"), "rmv", A("inputValue")),
       SetAttr(94, "ramp", CE(0, "position"), One \div 2),
       Create(95, "createNode", "reverse", "coneAngle", NoVar, "rvs"),
       Connect(96, "rmv", A("outValue"), "rvs", A("inputX")),
       Connect(97, "rvs", A("outputX"), "ramp", CE(3, "position")) >>

\* lines 87-97: the cone-angle remap and its reverse, driving stops 0 and 3
cone_angle_remap ==
    << Create(88, "createNode", "remapValue", "coneAngle", NoVar, "rmv"),
       SetAttr(89, "rmv", A("inputMin"), ConeAngleMin * One),
       SetAttr(90, "rmv", A("inputMax"), ConeAngleMax * One),
       SetAttr(91, "rmv", A("outputMin"), One),
       SetAttr(92, "rmv", A("outputMax"), One \div 2),
       Connect(93, "info_node", A("coneAngle"), "rmv", A("inputValue")),
       Connect(94, "rmv", A("outValue"), "ramp", CE(0, "position")),
       Create(95, "createNode", "reverse", "coneAngle", NoVar, "rvs"),
       Connect(96, "rmv", A("outValue"), "rvs", A("inputX")),
       Connect(97, "rvs", A("outputX"), "ramp", CE(3, "position")) >>

_basic_setup(s) == info_attrs(s) \o sampling(s) \o ramp_entries \o cone_angle_remap

\* A variant of _target_setup that passes p=self.info_node at line 116.
_target_setup_pose_on_info(s) ==
    << Create(108, "createNode", "transform", Fmt("C_", s.name, "Driver_LOC"), "info_node", "driver"),
       Create(111, "createNode", "locator", Fmt("C_", s.name, "Driver_LOCShape"), "driver", NoVar),
       Create(114, "createNode", "transform", Fmt("C_", s.name, "Pose_LOC"), "info_node", "pose"),
       Create(117, "createNode", "locator", Fmt("C_", s.name, "Pose_LOCShape"), "pose", NoVar),
       SetAttr(120, "pose", A("tx"), One),
       Create(121, "createNode", "decomposeMatrix", NoName, NoVar, "dcm"),
       Connect(122, "pose", A("wm"), "dcm", A("inputMatrix")),
       Connect(123, "dcm", A("outputTranslate"), "point_on_surface", A("inPosition")) >>

\* A variant of _target_setup that formats the driver's name at line 115.
_target_setup_pose_named_driver(s) ==
    << Create(108, "createNode", "transform", Fmt("C_", s.name, "Driver_LOC"), "info_node", "driver"),
       Create(111, "createNode", "locator", Fmt("C_", s.name, "Driver_LOCShape"), "driver", NoVar),
       Create(114, "createNode", "transform", Fmt("C_", s.name, "Driver_LOC"), "driver", "pose"),
       Create(117, "createNode", "locator", Fmt("C_", s.name, "Pose_LOCShape"), "pose", NoVar),
       SetAttr(120, "pose", A("tx"), One),
       Create(121, "createNode", "decomposeMatrix", NoName, NoVar, "dcm"),
       Connect(122, "pose", A("wm"), "dcm", A("inputMatrix")),
       Connect(123, "dcm", A("outputTranslate"), "point_on_surface", A("inPosition")) >>

\* lines 108-123: the driver, the pose locator and the matrix decomposition
_target_setup(s) ==
    << Create(108, "createNode", "transform", Fmt("C_", s.name, "Driver_LOC"), "info_node", "driver"),
       Create(111, "createNode", "locator", Fmt("C_", s.name, "Driver_LOCShape"), "driver", NoVar),
       Create(114, "createNode", "transform", Fmt("C_", s.name, "Pose_LOC"), "driver", "pose"),
       Create(117, "createNode", "locator", Fmt("C_", s.name, "Pose_LOCShape"), "pose", NoVar),
       SetAttr(120, "pose", A("tx"), One),
       Create(121, "createNode", "decomposeMatrix", NoName, NoVar, "dcm"),
       Connect(122, "pose", A("wm"), "dcm", A("inputMatrix")),
       Connect(123, "dcm", A("outputTranslate"), "point_on_surface", A("inPosition")) >>

\* A variant of vis_ramp_entries that sets the colour on self.ramp at line 137.
vis_ramp_entries_on_core ==
    << SetAttr(134, "vis_ramp", A("type"), 1),
       SetAttr(135, "vis_ramp", CE(0, "color"), Grey(0)),
       SetAttr(136, "vis_ramp", CE(1, "position"), One),
       SetAttr(137, "ramp", CE(1, "color"), Grey(0)),
       SetAttr(138, "vis_ramp", CE(2, "position"), 0),
       CmdsSetAttr(139, "vis_ramp", CE(2, "color"), Grey(0)),
       SetAttr(141, "vis_ramp", CE(3, "color"), Grey(0)) >>

\* lines 134-141: the stops of the visualizer ramp
vis_ramp_entries ==
    << SetAttr(134, "vis_ramp", A("type"), 1),
       SetAttr(135, "vis_ramp", CE(0, "color"), Grey(0)),
       SetAttr(136, "vis_ramp", CE(1, "position"), One),
       SetAttr(137, "vis_ramp", CE(1, "color"), Grey(0)),
       SetAttr(138, "vis_ramp", CE(2, "position"), 0),
       CmdsSetAttr(139, "vis_ramp", CE(2, "color"), Grey(0)),
       SetAttr(141, "vis_ramp", CE(3, "color"), Grey(0)) >>

\* lines 128-159: the shader, its set, the visualizer ramp and its remap
_visualizer_setup ==
    << Create(128, "shadingNode", "surfaceShader", "visualize", NoVar, "visualize_sdr"),
       Create(130, "sets", "shadingEngine", "visualize", NoVar, "sets"),
       Connect(132, "visualize_sdr", A("outColor"), "sets", A("surfaceShader")),
       Create(133, "createNode", "ramp", "visualize", NoVar, "vis_ramp") >>
    \o vis_ramp_entries \o
    << Connect(142, "ramp", A("outColorR"), "vis_ramp", CEC(1, "colorG")),
       Create(143, "createNode", "remapValue", "visualize", NoVar, "rmv"),
       SetAttr(144, "rmv", A("inputMin"), -One),
       SetAttr(145, "rmv", A("inputMax"), 0),
       SetAttr(146, "rmv", A("outputMin"), One),
       SetAttr(147, "rmv", A("outputMax"), 0),
       Connect(148, "ramp", A("outColorR"), "rmv", A("inputValue")),
       Connect(149, "rmv", A("outValue"), "vis_ramp", CEC(2, "colorR")),
       Connect(151, "ramp", CE(0, "position"), "vis_ramp", CE(0, "position")),
       Connect(153, "ramp", CE(3, "position"), "vis_ramp", CE(3, "position")),
       Connect(156, "vis_ramp", A("outColor"), "visualize_sdr", A("outColor")),
       DefaultNavigation(157, "visualize_sdr", "sphere") >>

\* A variant of setup that calls _target_setup before _basic_setup.
setup_target_first(s) ==
    <<Call(47, "_target_setup")>> \o _target_setup(s)
    \o <<Call(46, "_basic_setup")>> \o _basic_setup(s)
    \o (IF s.with_visualizer
        THEN <<Call(49, "_visualizer_setup")>> \o _visualizer_setup
        ELSE <<>>)

\* A variant of setup without the test of line 48.
setup_always_visualizes(s) ==
    <<Call(46, "_basic_setup")>> \o _basic_setup(s)
    \o <<Call(47, "_target_setup")>> \o _target_setup(s)
    \o <<Call(49, "_visualizer_setup")>> \o _visualizer_setup

\* lines 44-51
setup(s) ==
    <<Call(46, "_basic_setup")>> \o _basic_setup(s)
    \o <<Call(47, "_target_setup")>> \o _target_setup(s)
    \o (IF s.with_visualizer
        THEN <<Call(49, "_visualizer_setup")>> \o _visualizer_setup
        ELSE <<>>)

----------------------------------------------------------------------------
\* The host (pymel.core / maya.cmds), as the program calls it.

builds == Len(args)

Ids == 1..Len(nodes)

IsDag(type) == type \in {"transform", "locator", "nurbsSurface"}

\* A DAG node's name must be free among its siblings, any other name in the scene.
InUse(nm, type, par) ==
    \E i \in Ids :
        /\ nodes[i].name = nm
        /\ (IsDag(type) /\ IsDag(nodes[i].type)) => nodes[i].parent = par

\* base1, base2, ...: the first one that is free
Numbered(base, type, par) ==
    LET k == CHOOSE k \in 1..(Len(nodes) + 1) :
                 /\ ~InUse(base \o ToString(k), type, par)
                 /\ \A j \in 1..(k - 1) : InUse(base \o ToString(j), type, par)
    IN  base \o ToString(k)

\* The name the host gives a new node, NoName when it refuses the requested one.
\* lines 59, 65, 88, 95, 108-117, 128-143 (n=...), 67-69, 121 (no n)
HostName(n, type, par) ==
    IF n = NoName THEN Numbered(type, type, par)
    ELSE IF ~InUse(n, type, par) THEN n
    ELSE IF policy = "rename" THEN Numbered(n, type, par)
    ELSE NoName

Node(type, nm, req, par) ==
    [type |-> type, name |-> nm, req |-> req, parent |-> par, by |-> builds]

\* str(node): the ids the host finds under a node's name
NodesNamed(nm) == {i \in Ids : nodes[i].name = nm}

SelfFields ==
    {"info_node", "nurbs_sphere", "point_on_surface", "ramp", "driver", "pose", "sphere"}

\* The value of a variable of the running method: a node id, or None.
Lookup(v) ==
    IF v \in DOMAIN frame THEN frame[v]
    ELSE IF v \in DOMAIN self THEN self[v]
    ELSE None

\* The variables a call names.
Refs(c) ==
    CASE c.op = "create" -> {c.p} \ {NoVar}
      [] c.op \in {"addAttr", "setAttr", "cmdsSetAttr"} -> {c.node}
      [] c.op = "connect" -> {c.sn, c.dn}
      [] c.op = "parent" -> {c.child, c.p}
      [] c.op = "defaultNavigation" -> {c.source, c.dest}
      [] OTHER -> {}

Bound(c) == \A v \in Refs(c) : Lookup(v) # None

\* A plug is <<node id, attribute path>>.
Has(f, plug) == plug[2] \in DOMAIN f[plug[1]]
Get(f, plug) == f[plug[1]][plug[2]]
Put(f, plug, v) == [f EXCEPT ![plug[1]] = (plug[2] :> v) @@ @]

HasInput(plug) == Has(conns, plug)

IsColour(attr) == attr[Len(attr)] = "color"

----------------------------------------------------------------------------
\* The object and the position of its build.

Running == status = "running" /\ pc \in 1..Len(prog)

Cur == prog[pc]

\* lines 21-41
__init__(name, cone_angle, with_visualizer) ==
    /\ status # "running"
    /\ builds < MaxBuilds
    /\ self' = [name |-> name, cone_angle |-> cone_angle, with_visualizer |-> with_visualizer,
                info_node |-> None, nurbs_sphere |-> None, point_on_surface |-> None,
                ramp |-> None, driver |-> None, pose |-> None]
    /\ args' = Append(args, [name |-> name, cone_angle |-> cone_angle,
                             with_visualizer |-> with_visualizer])
    /\ frame' = EmptyFn
    /\ prog' = setup(self')
    /\ phases' = <<>>
    /\ pc' = 1
    /\ status' = "running"
    /\ error' = NoError
    /\ UNCHANGED <<scene, policy, faulted, objects>>

\* line 164: running the script builds once with the defaults
ModuleLevelCall ==
    /\ builds = 0
    /\ __init__(DefaultName, DefaultConeAngle, TRUE)

\* later constructor calls, by the user of the class
UserCall ==
    /\ builds > 0
    /\ \E name \in UserNames, cone_angle \in ConeAngles, with_visualizer \in BOOLEAN :
           __init__(name, cone_angle, with_visualizer)

\* A variant of Raise that deletes the nodes of the failed build.
RaiseAndCleanUp(e) ==
    /\ status' = "raised"
    /\ error' = e
    /\ nodes' = SelectSeq(nodes, LAMBDA n : n.by # builds)
    /\ UNCHANGED <<vals, limits, conns, policy, self, frame, pc, phases, args, objects, prog>>

\* An exception leaves setup() and __init__ (lines 41, 44-51: no try, no except).
Raise(e) ==
    /\ status' = "raised"
    /\ error' = e
    /\ UNCHANGED <<scene, policy, self, frame, pc, phases, args, objects, prog>>

Bind(v, id) ==
    IF v = NoVar THEN UNCHANGED <<self, frame>>
    ELSE IF v \in SelfFields THEN self' = (v :> id) @@ self /\ UNCHANGED frame
    ELSE frame' = (v :> id) @@ frame /\ UNCHANGED self

Advance == pc' = pc + 1 /\ UNCHANGED <<policy, faulted, phases, status, error, args, objects, prog>>

\* lines 46, 47, 49: setup() enters a method, with fresh locals
CallMethod ==
    /\ Running /\ Cur.op = "call"
    /\ phases' = Append(phases, Cur.method)
    /\ frame' = EmptyFn
    /\ pc' = pc + 1
    /\ UNCHANGED <<scene, policy, faulted, self, status, error, args, objects, prog>>

\* pm.createNode, pm.shadingNode, pm.sets, pm.sphere
CreateNode ==
    /\ Running /\ Cur.op = "create"
    /\ LET c == Cur
           par == IF c.p = NoVar THEN None ELSE Lookup(c.p)
           nm == HostName(c.n, c.type, par)
           id == Len(nodes) + 1
           \* pm.sphere makes the transform and, under it, its shape
           new == IF c.cmd = "sphere"
                  THEN << Node(c.type, nm, c.n, par),
                          Node("nurbsSurface", nm \o "Shape", NoName, id) >>
                  ELSE << Node(c.type, nm, c.n, par) >>
       IN  IF nm = NoName
           THEN Raise("NameCollision") /\ UNCHANGED faulted
           ELSE /\ nodes' = nodes \o new
                /\ vals' = vals \o [k \in 1..Len(new) |-> EmptyFn]
                /\ limits' = limits \o [k \in 1..Len(new) |-> EmptyFn]
                /\ conns' = conns \o [k \in 1..Len(new) |-> EmptyFn]
                /\ Bind(c.to, id)
                /\ Advance

\* node.addAttr(attr, min=, max=, dv=)
AddAttribute ==
    /\ Running /\ Cur.op = "addAttr"
    /\ LET c == Cur
           plug == <<Lookup(c.node), c.attr>>
       IN  IF ~Bound(c)
           THEN Raise("AttributeError") /\ UNCHANGED faulted
           ELSE /\ limits' = Put(limits, plug, [min |-> c.min, max |-> c.max])
                /\ vals' = Put(vals, plug, c.dv)
                /\ Advance
                /\ UNCHANGED <<nodes, conns, self, frame>>

\* node.setAttr(attr, value): pymel refuses a negative colour (lines 80-81)
SetAttribute ==
    /\ Running /\ Cur.op = "setAttr"
    /\ LET c == Cur
           plug == <<Lookup(c.node), c.attr>>
       IN  IF ~Bound(c)
           THEN Raise("AttributeError") /\ UNCHANGED faulted
           ELSE IF IsColour(c.attr) /\ \E k \in 1..3 : c.val[k] < 0
           THEN Raise("HostError") /\ UNCHANGED faulted
           ELSE /\ vals' = Put(vals, plug, c.val)
                /\ Advance
                /\ UNCHANGED <<nodes, limits, conns, self, frame>>

\* cmds.setAttr('%s.attr' % node, value, type='double3'): the node is found by name
CmdsSetAttribute ==
    /\ Running /\ Cur.op = "cmdsSetAttr"
    /\ LET c == Cur
           found == IF Bound(c) THEN NodesNamed(nodes[Lookup(c.node)].name) ELSE {}
       IN  IF Cardinality(found) # 1
           THEN Raise("HostError") /\ UNCHANGED faulted
           ELSE /\ vals' = Put(vals, <<CHOOSE i \in found : TRUE, c.attr>>, c.val)
                /\ Advance
                /\ UNCHANGED <<nodes, limits, conns, self, frame>>

\* source >> destination
ConnectAttr ==
    /\ Running /\ Cur.op = "connect"
    /\ LET c == Cur
           src == <<Lookup(c.sn), c.sa>>
           dst == <<Lookup(c.dn), c.da>>
       IN  IF ~Bound(c)
           THEN Raise("AttributeError") /\ UNCHANGED faulted
           ELSE IF HasInput(dst)
           THEN Raise("HostError") /\ UNCHANGED faulted
           ELSE /\ conns' = Put(conns, dst, src)
                /\ Advance
                /\ UNCHANGED <<nodes, vals, limits, self, frame>>

\* pm.parent(child, parent)
ParentNode ==
    /\ Running /\ Cur.op = "parent"
    /\ LET c == Cur
       IN  IF ~Bound(c)
           THEN Raise("HostError") /\ UNCHANGED faulted
           ELSE /\ nodes' = [nodes EXCEPT ![Lookup(c.child)].parent = Lookup(c.p)]
                /\ Advance
                /\ UNCHANGED <<vals, limits, conns, self, frame>>

\* pm.defaultNavigation(source=shader, destination=sphere.getShape().instObjGroups[0],
\*                      connectToExisting=True)
AssignShader ==
    /\ Running /\ Cur.op = "defaultNavigation"
    /\ LET c == Cur
           shapes == {i \in Ids : nodes[i].parent = Lookup(c.dest)
                                  /\ nodes[i].type = "nurbsSurface"}
           groups == {g \in Ids : /\ nodes[g].type = "shadingEngine"
                                   /\ \E a \in DOMAIN conns[g] :
                                          conns[g][a] = <<Lookup(c.source), A("outColor")>>}
       IN  IF ~Bound(c) \/ shapes = {}
           THEN Raise("AttributeError") /\ UNCHANGED faulted
           ELSE /\ conns' = [g \in Ids |->
                                IF g \in groups
                                THEN (A("dagSetMembers") :>
                                          <<CHOOSE i \in shapes : TRUE, A("instObjGroups")>>)
                                     @@ conns[g]
                                ELSE conns[g]]
                /\ Advance
                /\ UNCHANGED <<nodes, vals, limits, self, frame>>

\* setup() and __init__ return: the caller holds the object.
Return ==
    /\ status = "running" /\ pc = Len(prog) + 1
    /\ status' = "done"
    /\ objects' = Append(objects, self)
    /\ UNCHANGED <<scene, policy, faulted, self, frame, pc, phases, error, args, prog>>

\* A host call fails for a reason of the host's own (no scene context, an unknown
\* node type, a locked attribute): at most once in a behaviour.
HostFault ==
    /\ Running /\ Cur.op # "call"
    /\ ~faulted
    /\ faulted' = TRUE
    /\ Raise("HostError")

----------------------------------------------------------------------------
\* The host's evaluation of the dependency graph.

\* Surface parameters the closest-point sampler can return: the sphere's U range
\* is [0, 4], which line 72 scales to the ramp's [0, 1].
USamples == {k * (One \div 2) : k \in 0..8}

\* coneAngle values the user sets on an info node, in degrees.
ConeInputs == {0, 90, 180}

Source(plug) == Get(conns, plug)

Stored(plug) == IF Has(vals, plug) THEN Get(vals, plug) ELSE 0

Clamp(x, lo, hi) == IF x < lo THEN lo ELSE IF x > hi THEN hi ELSE x

\* remapValue: inputValue, clamped to [inputMin, inputMax], mapped linearly
\* onto [outputMin, outputMax]
Remap(v, inMin, inMax, outMin, outMax) ==
    IF inMax = inMin THEN outMin
    ELSE outMin + ((Clamp(v, inMin, inMax) - inMin) * (outMax - outMin)) \div (inMax - inMin)

RECURSIVE Eval(_, _), Out(_, _)

\* The value an input plug reads, the sampler returning u.
Eval(plug, u) == IF HasInput(plug) THEN Out(Source(plug), u) ELSE Stored(plug)

\* The value an output plug gives.
Out(plug, u) ==
    LET n == plug[1]
        a == plug[2]
        type == nodes[n].type
        in(x) == Eval(<<n, A(x)>>, u)
    IN  CASE type = "remapValue" /\ a = A("outValue") ->
                 Remap(in("inputValue"), in("inputMin"), in("inputMax"),
                       in("outputMin"), in("outputMax"))
          [] type = "reverse" /\ a = A("outputX") -> One - in("inputX")
          [] type = "multDoubleLinear" /\ a = A("output") ->
                 (in("input1") * in("input2")) \div One
          [] type = "closestPointOnSurface" /\ a = A("parameterU") -> u
          [] OTHER -> Eval(plug, u)

\* The stops of a ramp: the indices of colorEntryList, among those the program
\* uses (lines 76-84, 135-141), that were set or connected.
Entries(r) ==
    {i \in 0..3 :
        \/ \E f \in {"position", "color"} :
               Has(vals, <<r, CE(i, f)>>) \/ HasInput(<<r, CE(i, f)>>)
        \/ \E ch \in {"colorR", "colorG", "colorB"} : HasInput(<<r, CEC(i, ch)>>)}

Position(r, i, u) == Eval(<<r, CE(i, "position")>>, u)

ColourR(r, i, u) ==
    IF HasInput(<<r, CEC(i, "colorR")>>) THEN Out(Source(<<r, CEC(i, "colorR")>>), u)
    ELSE IF Has(vals, <<r, CE(i, "color")>>) THEN Get(vals, <<r, CE(i, "color")>>)[1]
    ELSE 0

Lerp(cl, ch, pl, ph, x) == cl + ((ch - cl) * (x - pl)) \div (ph - pl)

\* outColorR of a ramp with linear interpolation, sampled at x, its stops given as
\* records of position p and red c: the possible values (stops at one position
\* leave the choice among them to the host).
RampPick(stops, x) ==
    LET below == {s \in stops : s.p <= x /\ \A t \in stops : t.p <= x => t.p <= s.p}
        above == {s \in stops : s.p > x /\ \A t \in stops : t.p > x => t.p >= s.p}
    IN  IF stops = {} THEN {0}
        ELSE IF below = {} THEN {s.c : s \in above}
        ELSE IF above = {} THEN {s.c : s \in below}
        ELSE {Lerp(l.c, h.c, l.p, h.p, x) : l \in below, h \in above}

RampOut(r, x, u) ==
    RampPick({[p |-> Position(r, i, u), c |-> ColourR(r, i, u)] : i \in Entries(r)}, x)

\* The ramp samples uCoord when it is a U ramp (type 1), vCoord otherwise.
RampCoord(r, u) ==
    IF Stored(<<r, A("type")>>) = 1 THEN Eval(<<r, A("uCoord")>>, u)
    ELSE Eval(<<r, A("vCoord")>>, u)

\* The values outValue of an info node can take when the sampler returns u.
OutValue(info, u) ==
    LET p == <<info, A("outValue")>>
    IN  IF ~HasInput(p) THEN {Stored(p)}
        ELSE LET s == Source(p)
             IN  IF nodes[s[1]].type = "ramp" /\ s[2] = A("outColorR")
                 THEN RampOut(s[1], RampCoord(s[1], u), u)
                 ELSE {Out(s, u)}

\* The user sets coneAngle on the info node of an object (setAttr keeps the
\* attribute within the limits addAttr gave it).
SetConeAngle ==
    /\ status # "running"
    /\ \E k \in 1..Len(objects), v \in ConeInputs :
           LET plug == <<objects[k].info_node, A("coneAngle")>>
           IN  /\ Has(limits, plug)
               /\ v * One >= Get(limits, plug).min
               /\ v * One <= Get(limits, plug).max
               /\ vals' = Put(vals, plug, v * One)
    /\ UNCHANGED <<nodes, limits, conns, policy, faulted, self, frame, pc, phases,
                   status, error, args, objects, prog>>

Init ==
    /\ nodes = <<>>
    /\ vals = <<>>
    /\ limits = <<>>
    /\ conns = <<>>
    /\ policy \in {"rename", "raise"}
    /\ faulted = FALSE
    /\ self = EmptyFn
    /\ frame = EmptyFn
    /\ pc = 0
    /\ phases = <<>>
    /\ status = "idle"
    /\ error = NoError
    /\ args = <<>>
    /\ objects = <<>>
    /\ prog = <<>>

Build ==
    \/ ModuleLevelCall
    \/ UserCall
    \/ CallMethod
    \/ CreateNode
    \/ AddAttribute
    \/ SetAttribute
    \/ CmdsSetAttribute
    \/ ConnectAttr
    \/ ParentNode
    \/ AssignShader
    \/ Return

Next == Build \/ HostFault

Spec == Init /\ [][Next]_vars

\* The builder and the rig in use: the user changes coneAngle between builds.
RigNext == Build \/ SetConeAngle

RigSpec == Init /\ [][RigNext]_vars

----------------------------------------------------------------------------
\* Properties.

Objects == {objects[k] : k \in 1..Len(objects)}

NodesBy(b) == {i \in Ids : nodes[i].by = b}

OfType(b, type) == {i \in NodesBy(b) : nodes[i].type = type}

ConeAngleOf(o) == Get(vals, <<o.info_node, A("coneAngle")>>)

\* The calls of the latest build that were made.
Past == {prog[j] : j \in 1..(pc - 1)}

\* C1: for every object whose constructor returned and every value of coneAngle on
\* its info node, that value lies in [0, 180], the position of core ramp stop 0 is
\* 1 - coneAngle / 360 (the linear remap of [0, 180] onto [1, 0.5]) and the position
\* of stop 3 is one minus it: 0.5 and 0.5 at coneAngle 180, 1 and 0 at coneAngle 0.
C1_ConeAngleDrivesStops ==
    \A o \in Objects :
        LET a == ConeAngleOf(o)
            p0 == Position(o.ramp, 0, 0)
            p3 == Position(o.ramp, 3, 0)
        IN  /\ a >= ConeAngleMin * One /\ a <= ConeAngleMax * One
            /\ 2 * ConeAngleMax * (One - p0) = a
            /\ p3 = One - p0
            /\ a = ConeAngleMax * One => 2 * p0 = One /\ 2 * p3 = One
            /\ a = ConeAngleMin * One => p0 = One /\ p3 = 0

\* An object built with cone_angle 180 whose coneAngle the user has set to 0 has its
\* stops at 1 and 0.
C1_Witness ==
    \E o \in Objects :
        /\ o.cone_angle = 180
        /\ ConeAngleOf(o) = 0
        /\ Position(o.ramp, 0, 0) = One
        /\ Position(o.ramp, 3, 0) = 0

\* C2: for every object whose constructor returned, every coneAngle set on its info
\* node and every surface parameter the sampler returns, every value outValue can
\* take lies in [-1, 1].
C2_OutValueBounded ==
    \A o \in Objects : \A u \in USamples :
        \A v \in OutValue(o.info_node, u) : v >= -One /\ v <= One

\* Both ends of the range are taken, and a value strictly between them, on an
\* object whose coneAngle was changed.
C2_Witness ==
    \E o \in Objects :
        /\ ConeAngleOf(o) = 90 * One
        /\ o.cone_angle # 90
        /\ \E u \in USamples : -One \in OutValue(o.info_node, u)
        /\ \E u \in USamples : One \in OutValue(o.info_node, u)
        /\ \E u \in USamples : \E v \in OutValue(o.info_node, u) : v > 0 /\ v < One

\* An earlier constructor call with the name of the latest one left nodes in the scene.
Rebuild ==
    /\ status # "idle"
    /\ \E b \in 1..(builds - 1) : args[b].name = self.name /\ NodesBy(b) # {}

\* C3 as stated: a build under the name of an earlier build does not succeed.
C3_Original == Rebuild => status # "done"

\* C3, amended: a build under the name of an earlier build raises a naming collision
\* only under a host that refuses a name in use, and then at its first creation call
\* (line 59), before it has created any node; under a host that renames, it meets no
\* naming collision and its info node gets another name than the one requested.
C3_RebuildByHostPolicy ==
    Rebuild =>
        /\ policy = "raise" =>
              /\ status # "done"
              /\ NodesBy(builds) = {}
              /\ status = "raised" => error \in {"NameCollision", "HostError"}
              /\ error = "NameCollision" => prog[pc].line = 59
        /\ policy = "rename" =>
              /\ error # "NameCollision"
              /\ self.info_node # None =>
                    /\ nodes[self.info_node].req = Fmt("C_", self.name, "_GRP")
                    /\ nodes[self.info_node].name # nodes[self.info_node].req

\* A second default-name build, after the module-level one, raised a naming collision.
C3_Witness ==
    /\ Rebuild
    /\ self.name = DefaultName
    /\ status = "raised"
    /\ error = "NameCollision"

IsVisualizerNode(i) ==
    \/ nodes[i].type \in {"surfaceShader", "shadingEngine"}
    \/ nodes[i].req = "visualize"

\* C4: a build with with_visualizer = False never enters _visualizer_setup and creates
\* no surface shader, no render set and no second ramp or remap node; on a scene
\* without visualizer nodes it leaves none.
C4_NoVisualizerNodes ==
    /\ \A b \in 1..builds :
           ~args[b].with_visualizer =>
               /\ \A i \in NodesBy(b) : ~IsVisualizerNode(i)
               /\ Cardinality(OfType(b, "ramp")) <= 1
               /\ Cardinality(OfType(b, "remapValue")) <= 1
    /\ (builds > 0 /\ ~self.with_visualizer) =>
           \A k \in 1..Len(phases) : phases[k] # "_visualizer_setup"
    /\ (builds > 0 /\ ~self.with_visualizer
          /\ \A i \in Ids : nodes[i].by < builds => ~IsVisualizerNode(i)) =>
           \A i \in Ids : ~IsVisualizerNode(i)

\* A build without visualizer returned, and the scene holds no visualizer node.
C4_Witness ==
    /\ status = "done"
    /\ ~self.with_visualizer
    /\ Cardinality(OfType(builds, "ramp")) = 1
    /\ \A i \in Ids : ~IsVisualizerNode(i)

DrivenBy(plug, types) == HasInput(plug) /\ nodes[Source(plug)[1]].type \in types

\* C5 as stated: every stop position of the core ramp is driven from the cone-angle
\* remap chain.
C5_Original ==
    \A o \in Objects : \A i \in Entries(o.ramp) :
        DrivenBy(<<o.ramp, CE(i, "position")>>, {"remapValue", "reverse"})

\* C5, amended: of the four stops of the core ramp, the positions of stops 0 and 3
\* are driven, stop 0 by the remapValue node that reads coneAngle of the info node
\* and stop 3 by the reverse node that reads that remapValue node; the positions of
\* stops 1 and 2 have no incoming connection and hold the values 1 and 0 set at
\* lines 77 and 79.
C5_OuterStopsDriven ==
    \A o \in Objects :
        LET p(i) == <<o.ramp, CE(i, "position")>>
        IN  /\ Entries(o.ramp) = 0..3
            /\ DrivenBy(p(0), {"remapValue"})
            /\ Source(p(0))[2] = A("outValue")
            /\ HasInput(<<Source(p(0))[1], A("inputValue")>>)
            /\ Source(<<Source(p(0))[1], A("inputValue")>>) = <<o.info_node, A("coneAngle")>>
            /\ DrivenBy(p(3), {"reverse"})
            /\ Source(p(3))[2] = A("outputX")
            /\ HasInput(<<Source(p(3))[1], A("inputX")>>)
            /\ Source(<<Source(p(3))[1], A("inputX")>>) = Source(p(0))
            /\ ~HasInput(p(1)) /\ Stored(p(1)) = One
            /\ ~HasInput(p(2)) /\ Stored(p(2)) = 0

\* An object whose constructor returned: stops 0 and 3 are driven, stop 1 is not.
C5_Witness ==
    \E o \in Objects :
        /\ DrivenBy(<<o.ramp, CE(0, "position")>>, {"remapValue"})
        /\ DrivenBy(<<o.ramp, CE(3, "position")>>, {"reverse"})
        /\ ~HasInput(<<o.ramp, CE(1, "position")>>)

PoseOffset(pose, driver) ==
    /\ pose # None /\ driver # None
    /\ nodes[pose].type = "transform"
    /\ nodes[pose].parent = driver
    /\ Has(vals, <<pose, A("tx")>>)
    /\ Get(vals, <<pose, A("tx")>>) = One
    /\ ~HasInput(<<pose, A("tx")>>)

\* C6: once line 120 has run, in the rest of the build and after it, and for every
\* object whose constructor returned, whatever its arguments: the pose locator is a
\* child of the driver and its tx is 1.
C6_PoseOffsetIsOne ==
    /\ \A o \in Objects : PoseOffset(o.pose, o.driver)
    /\ (\E c \in Past : c.line = 120) => PoseOffset(self.pose, self.driver)

\* Objects built with other arguments than the defaults, and a default one.
C6_Witness ==
    /\ \E o \in Objects :
           /\ o.name # DefaultName /\ o.cone_angle # DefaultConeAngle /\ ~o.with_visualizer
           /\ PoseOffset(o.pose, o.driver)
    /\ \E o \in Objects :
           /\ o.name = DefaultName /\ o.cone_angle = DefaultConeAngle /\ o.with_visualizer
           /\ PoseOffset(o.pose, o.driver)

\* C7: a step on which a host call fails changes nothing in the scene and leaves the
\* build at that call with the host's own error; and nothing changes the scene or
\* moves the build afterwards, until another constructor call.
C7_NoRollback ==
    /\ [][(status = "running" /\ status' = "raised") =>
              /\ UNCHANGED <<scene, pc, args>>
              /\ error' \in {"HostError", "NameCollision"}]_vars
    /\ [][(status = "raised" /\ args' = args) => UNCHANGED <<scene, pc, status, error>>]_vars

\* A host call of the visualizer phase failed: the nodes and connections the build
\* had made are in the scene.
C7_Witness ==
    /\ status = "raised"
    /\ error = "HostError"
    /\ Len(phases) = 3
    /\ Cardinality(NodesBy(builds)) > 13
    /\ \E i \in NodesBy(builds) : DOMAIN conns[i] # {}

PhaseOrder == <<"_basic_setup", "_target_setup", "_visualizer_setup">>

\* C8: the methods a build has entered are an initial part of base, target,
\* visualizer, the visualizer only with with_visualizer, and all of them once the
\* constructor has returned; every variable the next call names is bound to a node
\* that this build created; no call has failed on an unbound variable.
C8_PhasesInOrder ==
    /\ Len(phases) <= 3
    /\ phases = SubSeq(PhaseOrder, 1, Len(phases))
    /\ Len(phases) = 3 => self.with_visualizer
    /\ status = "done" => Len(phases) = (IF self.with_visualizer THEN 3 ELSE 2)
    /\ Running =>
           \A v \in Refs(Cur) : Lookup(v) # None /\ nodes[Lookup(v)].by = builds
    /\ error # "AttributeError"

\* The visualizer phase is about to read the stop position of the core ramp, which
\* the base phase created.
C8_Witness ==
    /\ Running
    /\ Cur.line = 151
    /\ phases = PhaseOrder
    /\ Lookup("ramp") # None

CoreNodes == {i \in NodesBy(builds) : ~IsVisualizerNode(i)}

SameRig(o1, o2) ==
    /\ \A u \in USamples : OutValue(o1.info_node, u) = OutValue(o2.info_node, u)
    /\ \A i \in 0..3 : Position(o1.ramp, i, 0) = Position(o2.ramp, i, 0)

\* C9: a step of the visualizer phase adds no connection into, and sets no attribute
\* of, a node the base and target phases created; and two objects in one scene, one
\* built with and one without the visualizer, with the same coneAngle, have the same
\* outValue for every surface parameter and the same core ramp stop positions.
C9_VisualizerOnlyReads ==
    /\ [][(status = "running" /\ Len(phases) = 3) =>
              \A i \in CoreNodes :
                  /\ conns'[i] = conns[i]
                  /\ vals'[i] = vals[i]]_vars
    /\ [](\A o1, o2 \in Objects :
              (o1.with_visualizer /\ ~o2.with_visualizer /\ ConeAngleOf(o1) = ConeAngleOf(o2))
                  => SameRig(o1, o2))

\* Two objects, with and without visualizer, at coneAngle 90: the same rig values.
C9_Witness ==
    \E o1, o2 \in Objects :
        /\ o1.with_visualizer /\ ~o2.with_visualizer
        /\ ConeAngleOf(o1) = ConeAngleOf(o2)
        /\ ConeAngleOf(o1) = 90 * One
        /\ \E u \in USamples : \E v \in OutValue(o1.info_node, u) : v # 0
        /\ SameRig(o1, o2)

\* C10 as stated: in the first build, on the empty scene, no creation call requests
\* a name that an earlier one requested, and none meets a naming collision.
C10_Original ==
    builds = 1 =>
        /\ error # "NameCollision"
        /\ \A i, j \in Ids :
               (i < j /\ nodes[i].req # NoName) => nodes[i].req # nodes[j].req

\* C10, amended: within one build the names formatted from the build's name are
\* requested once each, while 'coneAngle' (lines 88, 95) and 'visualize' (lines 128,
\* 130, 133, 143) are requested repeatedly; so under a host that renames no build
\* meets a naming collision, and under a host that refuses a name in use the first
\* build raises at line 95 and no constructor call ever returns.
C10_OnlyUtilityNamesRepeat ==
    /\ \A i, j \in NodesBy(builds) :
           (i < j /\ nodes[i].req # NoName /\ nodes[i].req = nodes[j].req)
               => nodes[i].req \in {"coneAngle", "visualize"}
    /\ policy = "rename" => error # "NameCollision"
    /\ (builds = 1 /\ error = "NameCollision") => prog[pc].line = 95
    /\ policy = "raise" => objects = <<>>

\* The first build returned under a renaming host: two nodes asked for 'coneAngle'.
C10_Witness ==
    /\ builds = 1
    /\ status = "done"
    /\ \E i, j \in Ids :
           /\ i # j
           /\ nodes[i].req = "coneAngle" /\ nodes[j].req = "coneAngle"
           /\ nodes[i].name # nodes[j].name

====
